---- MODULE Spec2Model ----
(***************************************************************************)
(* Model of the mermaid diagram core:                                      *)
(*   - Diagram.fromText / Diagram facade   (packages/mermaid/src/Diagram.ts)*)
(*   - preprocessDiagram and its helpers   (preprocess.ts)                 *)
(*                                                                         *)
(* JavaScript is single threaded and cooperative: `cur` is the call whose  *)
(* code is running (0 when the event loop is idle).  A call gives up the   *)
(* thread only at `await loader()` and `await parser.parse(text)`.         *)
(***************************************************************************)
EXTENDS Integers, Sequences, FiniteSets, TLC

\* ------------------------------------------------------------- bounds
\* fromText invocations, numbered in the order they are made
NumCalls == 2
\* distinct definition objects the loaders can hand out
NumDefs == 2

Calls == 1..NumCalls
Defs == 1..NumDefs
NoDef == 0

\* ------------------------------------------------------------- inputs
\* A diagram text is a sequence of tokens; the first one is what the
\* detectors look at.
Texts ==
  { <<"flowchart", "A">>, <<"flowchart", "#9829;">>, <<"sequenceDiagram">>,
    <<"doesnotexist">>, <<"???">> }

NoTitle == "<undefined>"
Titles == { NoTitle, "", "Caller title" }

\* the fromText(text, metadata) invocations the callers make
Requests ==
  { << <<"flowchart", "A">>, NoTitle >>,
    << <<"flowchart", "#9829;">>, "Caller title" >>,
    << <<"sequenceDiagram">>, "" >>,
    << <<"doesnotexist">>, "Caller title" >>,
    << <<"???">>, NoTitle >> }

Tags == { "flowchart", "sequence", "doesnotexist" }
NoType == "<no type>"

LoaderIds == { "flowchart", "sequence" }
LoaderErrors == { "NetworkError" }
ParseErrors == { "ParseError" }

\* JavaScript truthiness of an optional string
Truthy(s) == s # NoTitle /\ s # ""

\* ------------------------------------------------------------- collaborators
\* detectType(text, config): the tag of the first matching detector; throws
\* UnknownDiagramError (NoType here) when no detector matches.
detectType(t) ==
  CASE Head(t) = "flowchart" -> "flowchart"
    [] Head(t) = "sequenceDiagram" -> "sequence"
    [] Head(t) = "doesnotexist" -> "doesnotexist"
    [] OTHER -> NoType

\* encodeEntities(text): `#name;` and `#123;` entities are rewritten to
\* placeholders, everything else is kept.
encodeToken(tok) == IF tok = "#9829;" THEN "fl°°9829¶ß" ELSE tok

encodeEntities(t) == [i \in 1..Len(t) |-> encodeToken(t[i])]

\* getDiagramLoader(type): the loader registered with the detector, if any
getDiagramLoader(t) == t \in { "flowchart", "sequence" }

\* capabilities of the definition objects the loaders hand out
HasParserParser(d) == d % 2 = 1
HasClear(d) == d % 2 = 1
HasInit(d) == d % 3 # 2
HasSetDiagramTitle(d) == d % 3 = 1

\* the objects of definition d
DbOf(d) == d
ParserOf(d) == d
RendererOf(d) == d

\* ------------------------------------------------------------- preprocess.ts
\* longest diagram source fed to preprocessDiagram
MaxCodeLen == 3

\* JavaScript values of the metadata and configuration objects
Empty == [ k \in {} |-> 0 ]
Str(s) == [ t |-> "str", s |-> s, o |-> Empty ]
Obj(f) == [ t |-> "obj", s |-> "", o |-> f ]
Null == [ t |-> "null", s |-> "", o |-> Empty ]
True == [ t |-> "bool", s |-> "true", o |-> Empty ]
False == [ t |-> "bool", s |-> "false", o |-> Empty ]

TruthyVal(v) ==
  CASE v.t = "str" -> v.s # ""
    [] v.t = "bool" -> v.s = "true"
    [] v.t = "obj" -> TRUE
    [] OTHER -> FALSE

Has(o, k) == k \in DOMAIN o
Set(o, k, v) == (k :> v) @@ o

\* A diagram source is a sequence of characters; a front-matter block, a
\* directive and a comment are each one element of it.
FrontMatterTokens ==
  { "---title---", "---compact---", "---compact+theme---", "---compact+gantt---",
    "---compact+emptygantt---", "---compact+nullgantt---", "---compact+textgantt---",
    "---gantt---", "---nodisplaymode---" }

InitTokens == { "%%{init:theme}%%", "%%{init:gantt}%%" }
WrapTokens == { "%%{wrap}%%", "%%{nowrap}%%" }
DirectiveTokens == InitTokens \cup WrapTokens
CommentTokens == { "%% note" }
PlainChars == { "\r", "\n", "a" }

\* extractFrontMatter looks at the start of the text only: anywhere else a
\* block is ordinary text, and one block stands for all of them there
Alphabet == { "---title---" } \cup DirectiveTokens \cup CommentTokens \cup PlainChars

Bodies(maxLen) == UNION { [ 1..n -> Alphabet ] : n \in 0..maxLen }

Codes ==
  Bodies(MaxCodeLen)
  \cup { << fm >> \o b : fm \in FrontMatterTokens, b \in Bodies(MaxCodeLen - 1) }

\* the metadata each front-matter block carries
MetadataOf(tok) ==
  CASE tok = "---title---" -> ("title" :> Str("FM title"))
    [] tok = "---compact---" -> ("displayMode" :> Str("compact"))
    [] tok = "---compact+theme---" ->
         ("displayMode" :> Str("compact")) @@
         ("config" :> Obj(("theme" :> Str("dark"))))
    [] tok = "---compact+gantt---" ->
         ("displayMode" :> Str("compact")) @@ ("title" :> Str("FM title")) @@
         ("config" :> Obj(("theme" :> Str("dark")) @@
                          ("gantt" :> Obj(("barHeight" :> Str("20")) @@
                                          ("displayMode" :> Str("old"))))))
    [] tok = "---compact+emptygantt---" ->
         ("displayMode" :> Str("compact")) @@ ("config" :> Obj(("gantt" :> Obj(Empty))))
    [] tok = "---compact+nullgantt---" ->
         ("displayMode" :> Str("compact")) @@ ("config" :> Obj(("gantt" :> Null)))
    [] tok = "---compact+textgantt---" ->
         ("displayMode" :> Str("compact")) @@ ("config" :> Obj(("gantt" :> Str("x"))))
    [] tok = "---gantt---" ->
         ("config" :> Obj(("gantt" :> Obj(("barHeight" :> Str("20"))))))
    [] tok = "---nodisplaymode---" ->
         ("displayMode" :> Str("")) @@ ("config" :> Obj(("theme" :> Str("dark"))))
    [] OTHER -> Empty

\* extractFrontMatter(code): a block at the very start of the text is taken
\* off and parsed; without one the text is returned as it is
extractFrontMatter(code) ==
  IF Len(code) > 0 /\ Head(code) \in FrontMatterTokens
    THEN [ text |-> Tail(code), metadata |-> MetadataOf(Head(code)) ]
    ELSE [ text |-> code, metadata |-> Empty ]

\* assignWithDepth: nested objects are combined key by key, b wins otherwise
RECURSIVE DeepMerge(_, _)
DeepMerge(a, b) ==
  [ k \in DOMAIN a \cup DOMAIN b |->
      IF Has(a, k) /\ Has(b, k) /\ a[k].t = "obj" /\ b[k].t = "obj"
        THEN Obj(DeepMerge(a[k].o, b[k].o))
        ELSE IF Has(b, k) THEN b[k] ELSE a[k] ]

\* cleanAndMerge(defaultData, data)
cleanAndMerge(defaultData, data) == DeepMerge(defaultData, data)

InitArgsOf(tok) ==
  CASE tok = "%%{init:theme}%%" -> ("theme" :> Str("forest"))
    [] tok = "%%{init:gantt}%%" ->
         ("gantt" :> Obj(("barHeight" :> Str("30")))) @@ ("wrap" :> True)
    [] OTHER -> Empty

RECURSIVE MergeInits(_)
MergeInits(code) ==
  IF code = <<>> THEN Empty
  ELSE LET rest == MergeInits(Tail(code))
       IN IF Head(code) \in InitTokens
            THEN DeepMerge(InitArgsOf(Head(code)), rest)
            ELSE rest

\* utils.detectInit(code): the merged arguments of the init directives, or
\* undefined when there is none
detectInit(code) ==
  IF \E i \in 1..Len(code) : code[i] \in InitTokens
    THEN [ defined |-> TRUE, o |-> MergeInits(code) ]
    ELSE [ defined |-> FALSE, o |-> Empty ]

DirectiveType(tok) == IF tok = "%%{wrap}%%" THEN "wrap" ELSE "nowrap"

\* utils.detectDirective(code, 'wrap'): the directives whose keyword matches
\* /wrap/; one object when there is at most one (a placeholder whose type is
\* the text itself when there is none), an array otherwise
detectDirective(code) ==
  LET found == SelectSeq(code, LAMBDA tok : tok \in WrapTokens)
      types == [ i \in 1..Len(found) |-> DirectiveType(found[i]) ]
  IN IF Len(found) = 0 THEN [ isArray |-> FALSE, types |-> << "<text>" >> ]
     ELSE IF Len(found) = 1 THEN [ isArray |-> FALSE, types |-> types ]
     ELSE [ isArray |-> TRUE, types |-> types ]

\* removeDirectives(code)
removeDirectives(code) == SelectSeq(code, LAMBDA tok : tok \notin DirectiveTokens)

\* cleanupComments(code)
cleanupComments(code) == SelectSeq(code, LAMBDA tok : tok \notin CommentTokens)

\* a first replace without the g flag: only the first match is rewritten
ReplaceCRFirstOnly(code) ==
  IF \E i \in 1..Len(code) : code[i] = "\r"
    THEN LET i == CHOOSE i \in 1..Len(code) :
                    code[i] = "\r" /\ \A k \in 1..(i - 1) : code[k] # "\r"
             skip == IF i < Len(code) /\ code[i + 1] = "\n" THEN 2 ELSE 1
         IN SubSeq(code, 1, i - 1) \o << "\n" >> \o SubSeq(code, i + skip, Len(code))
    ELSE code

\* a first replace with /\r/g: the LF of a CR-LF pair is left behind
ReplaceCREach(code) ==
  [ i \in 1..Len(code) |-> IF code[i] = "\r" THEN "\n" ELSE code[i] ]

\* lines 10-21, first replace: /\r\n?/g -> '\n'
RECURSIVE ReplaceCR(_)
ReplaceCR(code) ==
  IF code = <<>> THEN <<>>
  ELSE IF Head(code) = "\r"
    THEN IF Len(code) > 1 /\ code[2] = "\n"
           THEN << "\n" >> \o ReplaceCR(Tail(Tail(code)))
           ELSE << "\n" >> \o ReplaceCR(Tail(code))
    ELSE << Head(code) >> \o ReplaceCR(Tail(code))

WordChars == { "a", "b", "_", "1" }

IndexFrom(code, i, ch) ==
  IF \E j \in i..Len(code) : code[j] = ch
    THEN CHOOSE j \in i..Len(code) : code[j] = ch /\ \A k \in i..(j - 1) : code[k] # ch
    ELSE 0

\* attributes.replace(/="([^"]*)"/g, "='$1'")
RECURSIVE ReplaceQuotes(_)
ReplaceQuotes(attrs) ==
  IF Len(attrs) < 3 THEN attrs
  ELSE LET close == IndexFrom(attrs, 3, "\"")
       IN IF attrs[1] = "=" /\ attrs[2] = "\"" /\ close # 0
            THEN << "=", "'" >> \o SubSeq(attrs, 3, close - 1) \o << "'" >>
                 \o ReplaceQuotes(SubSeq(attrs, close + 1, Len(attrs)))
            ELSE << Head(attrs) >> \o ReplaceQuotes(Tail(attrs))

\* lines 16-19, second replace: /<(\w+)([^>]*)>/g
RECURSIVE ReplaceTags(_)
ReplaceTags(code) ==
  IF Len(code) < 3 THEN code
  ELSE LET close == IndexFrom(code, 3, ">")
       IN IF code[1] = "<" /\ code[2] \in WordChars /\ close # 0
            THEN LET inner == SubSeq(code, 2, close - 1)
                     tagLen == CHOOSE n \in 1..Len(inner) :
                                 /\ \A k \in 1..n : inner[k] \in WordChars
                                 /\ (n = Len(inner) \/ inner[n + 1] \notin WordChars)
                     tag == SubSeq(inner, 1, tagLen)
                     attributes == SubSeq(inner, tagLen + 1, Len(inner))
                 IN << "<" >> \o tag \o ReplaceQuotes(attributes) \o << ">" >>
                    \o ReplaceTags(SubSeq(code, close + 1, Len(code)))
            ELSE << Head(code) >> \o ReplaceTags(Tail(code))

\* lines 10-21
cleanupText(code) == ReplaceTags(ReplaceCR(code))

\* a processFrontmatter that replaces config.gantt instead of extending it
processFrontmatterOverwrites(code) ==
  LET r == extractFrontMatter(code)
      metadata == r.metadata
      config == IF Has(metadata, "config") THEN metadata["config"].o ELSE Empty
  IN [ title |-> IF Has(metadata, "title") THEN metadata["title"].s ELSE NoTitle,
       config |->
         IF Has(metadata, "displayMode") /\ TruthyVal(metadata["displayMode"])
           THEN Set(config, "gantt", Obj(("displayMode" :> metadata["displayMode"])))
           ELSE config,
       text |-> r.text,
       error |-> "" ]

\* lines 23-34; the module is strict code, so the assignment of line 31 to a
\* property of a primitive (a gantt that is a non-empty string) throws
processFrontmatter(code) ==
  LET r == extractFrontMatter(code)
      metadata == r.metadata
      config == IF Has(metadata, "config") THEN metadata["config"].o ELSE Empty
      projects == Has(metadata, "displayMode") /\ TruthyVal(metadata["displayMode"])
      withGantt ==
        IF ~Has(config, "gantt") \/ ~TruthyVal(config["gantt"])
          THEN Set(config, "gantt", Obj(Empty))
          ELSE config
      throws == projects /\ withGantt["gantt"].t # "obj"
  IN [ title |-> IF Has(metadata, "title") THEN metadata["title"].s ELSE NoTitle,
       config |->
         IF projects /\ ~throws
           THEN Set(withGantt, "gantt",
                    Obj(Set(withGantt["gantt"].o, "displayMode", metadata["displayMode"])))
           ELSE config,
       text |-> r.text,
       error |-> IF throws THEN "TypeError" ELSE "" ]

\* a processDirectives without the Array.isArray branch: only a single
\* directive is looked at
processDirectivesSingleOnly(code) ==
  LET initDirective == detectInit(code).o
      wrapDirectives == detectDirective(code)
  IN [ text |-> removeDirectives(code),
       directive |->
         IF ~wrapDirectives.isArray /\ wrapDirectives.types[1] = "wrap"
           THEN Set(initDirective, "wrap", True)
           ELSE initDirective ]

\* lines 36-48
processDirectives(code) ==
  LET initDirective == detectInit(code).o
      wrapDirectives == detectDirective(code)
      hasWrap == \E i \in 1..Len(wrapDirectives.types) : wrapDirectives.types[i] = "wrap"
  IN [ text |-> removeDirectives(code),
       directive |->
         IF wrapDirectives.isArray
           THEN Set(initDirective, "wrap", IF hasWrap THEN True ELSE False)
           ELSE IF hasWrap THEN Set(initDirective, "wrap", True)
           ELSE initDirective ]

\* ------------------------------------------------------------- state
VARIABLES
  diagrams,   \* the registry: tag -> definition (NoDef when unregistered)
  cur,        \* the call running on the thread, 0 when none
  pc,         \* where each call is
  type,       \* fromText local `type`
  text,       \* fromText local `text` (after line 23)
  metadata,   \* fromText parameter metadata.title
  loaded,     \* the promise returned by loader()
  parsed,     \* the promise returned by parser.parse(text)
  defn,       \* the definition destructured at line 50
  ret,        \* what fromText's promise settled with
  log,        \* the collaborator calls this fromText call made, in order
  regAtEntry, \* was the tag registered when the call reached line 32
  failedAtEntry, \* had a loader of the tag already rejected when the call started
  starts,     \* fromText invocations made so far
  dbContent,  \* what each db holds
  dbTitle,    \* the diagram title each db holds
  yy,         \* parser.parser.yy of each parser (NoDef when unset)
  pre,        \* the preprocessDiagram call: its position, locals and result
  norm,       \* the cleanupText call: its argument and what it returned
  facade      \* the last operation made on a Diagram facade

vars ==
  << diagrams, cur, pc, type, text, metadata, loaded, parsed, defn, ret, log,
     regAtEntry, failedAtEntry, starts, dbContent, dbTitle, yy, pre, norm, facade >>

\* the variables of the Diagram facade and the registry
diagramVars ==
  << diagrams, cur, pc, type, text, metadata, loaded, parsed, defn, ret, log,
     regAtEntry, failedAtEntry, starts, dbContent, dbTitle, yy >>

Pending == [ status |-> "pending", id |-> "", diagram |-> NoDef, err |-> "" ]
Fulfilled(id, d) == [ status |-> "fulfilled", id |-> id, diagram |-> d, err |-> "" ]
Rejected(e) == [ status |-> "rejected", id |-> "", diagram |-> NoDef, err |-> e ]

NoRet ==
  [ kind |-> "pending", err |-> "", type |-> "", text |-> <<>>,
    db |-> NoDef, parser |-> NoDef, renderer |-> NoDef ]
ErrRet(e) == [ NoRet EXCEPT !.kind = "error", !.err = e ]

\* new Diagram(type, text, db, parser, renderer)
NewDiagram(ty, tx, db, parser, renderer) ==
  [ kind |-> "diagram", err |-> "", type |-> ty, text |-> tx,
    db |-> db, parser |-> parser, renderer |-> renderer ]

Ev(op, arg) == << op, arg >>

NoResult == [ code |-> <<>>, title |-> NoTitle, config |-> Empty ]
NoFrontMatterResult == [ title |-> NoTitle, config |-> Empty, text |-> <<>>, error |-> "" ]
NoDirectiveResult == [ text |-> <<>>, directive |-> Empty ]

\* no cleanupText call yet
NormIdle == [ pc |-> "idle", input |-> <<>>, once |-> <<>>, twice |-> <<>> ]

\* no facade operation yet
FacadeIdle ==
  [ op |-> "none", this |-> 0, id |-> "", version |-> "", status |-> "idle",
    draws |-> <<>>, parser |-> NoDef, type |-> "" ]

PreIdle ==
  [ pc |-> "idle", input |-> <<>>, code |-> <<>>, cleanedCode |-> <<>>,
    frontMatterResult |-> NoFrontMatterResult,
    directiveResult |-> NoDirectiveResult,
    config |-> Empty, result |-> NoResult, trace |-> <<>>, error |-> "" ]

Init ==
  /\ diagrams = [ t \in Tags |-> NoDef ]
  /\ cur = 0
  /\ pc = [ c \in Calls |-> "idle" ]
  /\ type = [ c \in Calls |-> NoType ]
  /\ text = [ c \in Calls |-> <<>> ]
  /\ metadata = [ c \in Calls |-> NoTitle ]
  /\ loaded = [ c \in Calls |-> Pending ]
  /\ parsed = [ c \in Calls |-> Pending ]
  /\ defn = [ c \in Calls |-> NoDef ]
  /\ ret = [ c \in Calls |-> NoRet ]
  /\ log = [ c \in Calls |-> <<>> ]
  /\ regAtEntry = [ c \in Calls |-> FALSE ]
  /\ failedAtEntry = [ c \in Calls |-> FALSE ]
  /\ starts = 0
  /\ dbContent = [ d \in Defs |-> <<>> ]
  /\ dbTitle = [ d \in Defs |-> "" ]
  /\ yy = [ d \in Defs |-> NoDef ]
  /\ pre = PreIdle
  /\ norm = NormIdle
  /\ facade = FacadeIdle

\* a fromText call for tag t has already been rejected by its loader
LoaderFailedFor(t) ==
  \E c \in Calls :
    pc[c] = "done" /\ type[c] = t /\ loaded[c].status = "rejected"

\* the call throws: its promise rejects and the thread is released
Throw(c, e) ==
  /\ ret' = [ ret EXCEPT ![c] = ErrRet(e) ]
  /\ pc' = [ pc EXCEPT ![c] = "done" ]
  /\ cur' = 0

Goto(c, l) ==
  /\ pc' = [ pc EXCEPT ![c] = l ]
  /\ UNCHANGED cur

Called(c, op, arg) == log' = [ log EXCEPT ![c] = Append(@, Ev(op, arg)) ]

\* ------------------------------------------------------------- Diagram.fromText
\* lines 17-23: the call starts, detects the type and encodes the text
Start(c, t, m) ==
  /\ cur = 0
  /\ pc[c] = "idle"
  /\ c = starts + 1
  /\ starts' = starts + 1
  /\ metadata' = [ metadata EXCEPT ![c] = m ]
  /\ type' = [ type EXCEPT ![c] = detectType(t) ]
  /\ loaded' = [ loaded EXCEPT ![c] = Pending ]
  /\ parsed' = [ parsed EXCEPT ![c] = Pending ]
  /\ defn' = [ defn EXCEPT ![c] = NoDef ]
  /\ log' = [ log EXCEPT ![c] = <<>> ]
  /\ IF detectType(t) = NoType
       THEN /\ ret' = [ ret EXCEPT ![c] = ErrRet("UnknownDiagramError") ]
            /\ pc' = [ pc EXCEPT ![c] = "done" ]
            /\ cur' = 0
            /\ text' = [ text EXCEPT ![c] = <<>> ]
            /\ UNCHANGED << regAtEntry, failedAtEntry >>
       ELSE /\ ret' = [ ret EXCEPT ![c] = NoRet ]
            /\ pc' = [ pc EXCEPT ![c] = "getDiagram" ]
            /\ cur' = c
            /\ text' = [ text EXCEPT ![c] = Append(encodeEntities(t), "\n") ]
            /\ regAtEntry' =
                 [ regAtEntry EXCEPT ![c] = diagrams[detectType(t)] # NoDef ]
            /\ failedAtEntry' =
                 [ failedAtEntry EXCEPT ![c] = LoaderFailedFor(detectType(t)) ]
  /\ UNCHANGED << diagrams, dbContent, dbTitle, yy, pre, norm, facade >>

\* a fromText that does not consult the registry before loading
TryGetDiagramAlwaysLoads(c) ==
  /\ cur = c
  /\ pc[c] = "getDiagram"
  /\ Goto(c, "getLoader")
  /\ UNCHANGED << diagrams, type, text, metadata, loaded, parsed, defn, ret, log,
                  regAtEntry, failedAtEntry, starts, dbContent, dbTitle, yy, pre, norm, facade >>

\* lines 30-33: try { getDiagram(type) } catch
TryGetDiagram(c) ==
  /\ cur = c
  /\ pc[c] = "getDiagram"
  /\ IF diagrams[type[c]] # NoDef THEN Goto(c, "lookup") ELSE Goto(c, "getLoader")
  /\ UNCHANGED << diagrams, type, text, metadata, loaded, parsed, defn, ret, log,
                  regAtEntry, failedAtEntry, starts, dbContent, dbTitle, yy, pre, norm, facade >>

\* a fromText without the `if (!loader)` check: a missing loader falls through
\* to the second getDiagram
GetLoaderUnchecked(c) ==
  /\ cur = c
  /\ pc[c] = "getLoader"
  /\ IF getDiagramLoader(type[c]) THEN Goto(c, "callLoader") ELSE Goto(c, "lookup")
  /\ UNCHANGED << diagrams, type, text, metadata, loaded, parsed, defn, ret, log,
                  regAtEntry, failedAtEntry, starts, dbContent, dbTitle, yy, pre, norm, facade >>

\* lines 35-38: no loader for the type: UnknownDiagramError
GetLoader(c) ==
  /\ cur = c
  /\ pc[c] = "getLoader"
  /\ IF getDiagramLoader(type[c])
       THEN Goto(c, "callLoader") /\ UNCHANGED ret
       ELSE Throw(c, "UnknownDiagramError")
  /\ UNCHANGED << diagrams, type, text, metadata, loaded, parsed, defn, log,
                  regAtEntry, failedAtEntry, starts, dbContent, dbTitle, yy, pre, norm, facade >>

\* line 41: loader() is invoked and the call suspends at the await
CallLoader(c) ==
  /\ cur = c
  /\ pc[c] = "callLoader"
  /\ Called(c, "loader", << type[c] >>)
  /\ pc' = [ pc EXCEPT ![c] = "awaitLoader" ]
  /\ cur' = 0
  /\ UNCHANGED << diagrams, type, text, metadata, loaded, parsed, defn, ret,
                  regAtEntry, failedAtEntry, starts, dbContent, dbTitle, yy, pre, norm, facade >>

\* the loader's promise settles: { id, diagram } or an error (the loader's
\* own code runs, so no fromText call is on the thread)
LoaderSettles(c, outcome) ==
  /\ cur = 0
  /\ pc[c] = "awaitLoader"
  /\ loaded[c].status = "pending"
  /\ loaded' = [ loaded EXCEPT ![c] = outcome ]
  /\ UNCHANGED << diagrams, cur, pc, type, text, metadata, parsed, defn, ret, log,
                  regAtEntry, failedAtEntry, starts, dbContent, dbTitle, yy, pre, norm, facade >>

\* a fromText that catches the loader's rejection and carries on
ResumeAfterLoaderSwallows(c) ==
  /\ cur = 0
  /\ pc[c] = "awaitLoader"
  /\ loaded[c].status # "pending"
  /\ pc' = [ pc EXCEPT ![c] = IF loaded[c].status = "rejected" THEN "lookup" ELSE "register" ]
  /\ cur' = c
  /\ UNCHANGED << diagrams, type, text, metadata, loaded, parsed, defn, ret, log,
                  regAtEntry, failedAtEntry, starts, dbContent, dbTitle, yy, pre, norm, facade >>

\* line 41: the await resumes; a rejection is rethrown out of fromText
ResumeAfterLoader(c) ==
  /\ cur = 0
  /\ pc[c] = "awaitLoader"
  /\ loaded[c].status # "pending"
  /\ IF loaded[c].status = "rejected"
       THEN Throw(c, loaded[c].err)
       ELSE /\ pc' = [ pc EXCEPT ![c] = "register" ]
            /\ cur' = c
            /\ UNCHANGED ret
  /\ UNCHANGED << diagrams, type, text, metadata, loaded, parsed, defn, log,
                  regAtEntry, failedAtEntry, starts, dbContent, dbTitle, yy, pre, norm, facade >>

\* registerDiagram(id, diagram): a second registration of the same definition
\* is a no-op, a different definition under a registered id is a conflict
registerDiagram(reg, id, d) == IF reg[id] = NoDef THEN [ reg EXCEPT ![id] = d ] ELSE reg

registerConflict(reg, id, d) == reg[id] # NoDef /\ reg[id] # d

\* a fromText that registers what it loaded under the detected type:
\* registerDiagram(type, diagram)
RegisterUnderType(c) ==
  /\ cur = c
  /\ pc[c] = "register"
  /\ Called(c, "registerDiagram", << type[c] >>)
  /\ IF registerConflict(diagrams, type[c], loaded[c].diagram)
       THEN Throw(c, "RegistrationConflict") /\ UNCHANGED diagrams
       ELSE /\ diagrams' = registerDiagram(diagrams, type[c], loaded[c].diagram)
            /\ Goto(c, "lookup")
            /\ UNCHANGED ret
  /\ UNCHANGED << type, text, metadata, loaded, parsed, defn,
                  regAtEntry, failedAtEntry, starts, dbContent, dbTitle, yy,
                  pre, norm, facade >>

\* line 42: registerDiagram(id, diagram)
Register(c) ==
  /\ cur = c
  /\ pc[c] = "register"
  /\ Called(c, "registerDiagram", << loaded[c].id >>)
  /\ IF registerConflict(diagrams, loaded[c].id, loaded[c].diagram)
       THEN Throw(c, "RegistrationConflict") /\ UNCHANGED diagrams
       ELSE /\ diagrams' = registerDiagram(diagrams, loaded[c].id, loaded[c].diagram)
            /\ Goto(c, "lookup")
            /\ UNCHANGED ret
  /\ UNCHANGED << type, text, metadata, loaded, parsed, defn,
                  regAtEntry, failedAtEntry, starts, dbContent, dbTitle, yy, pre, norm, facade >>

\* a fromText that keeps the definition its own loader returned
LookupUsesLoaded(c) ==
  /\ cur = c
  /\ pc[c] = "lookup"
  /\ IF diagrams[type[c]] = NoDef
       THEN Throw(c, "DiagramNotFoundError") /\ UNCHANGED defn
       ELSE /\ defn' = [ defn EXCEPT ![c] =
                 IF loaded[c].status = "fulfilled" THEN loaded[c].diagram
                 ELSE diagrams[type[c]] ]
            /\ Goto(c, "bindYY")
            /\ UNCHANGED ret
  /\ UNCHANGED << diagrams, type, text, metadata, loaded, parsed, log,
                  regAtEntry, failedAtEntry, starts, dbContent, dbTitle, yy, pre, norm, facade >>

\* line 50: const { db, parser, renderer, init } = getDiagram(type)
Lookup(c) ==
  /\ cur = c
  /\ pc[c] = "lookup"
  /\ IF diagrams[type[c]] = NoDef
       THEN Throw(c, "DiagramNotFoundError") /\ UNCHANGED defn
       ELSE /\ defn' = [ defn EXCEPT ![c] = diagrams[type[c]] ]
            /\ Goto(c, "bindYY")
            /\ UNCHANGED ret
  /\ UNCHANGED << diagrams, type, text, metadata, loaded, parsed, log,
                  regAtEntry, failedAtEntry, starts, dbContent, dbTitle, yy, pre, norm, facade >>

\* lines 51-54: if (parser.parser) parser.parser.yy = db
BindYY(c) ==
  /\ cur = c
  /\ pc[c] = "bindYY"
  /\ IF HasParserParser(defn[c])
       THEN /\ yy' = [ yy EXCEPT ![ParserOf(defn[c])] = DbOf(defn[c]) ]
            /\ Called(c, "yy", <<>>)
       ELSE UNCHANGED << yy, log >>
  /\ Goto(c, "clear")
  /\ UNCHANGED << diagrams, type, text, metadata, loaded, parsed, defn, ret,
                  regAtEntry, failedAtEntry, starts, dbContent, dbTitle, pre, norm, facade >>

\* a fromText without the db.clear?.() line
DbClearSkipped(c) ==
  /\ cur = c
  /\ pc[c] = "clear"
  /\ Goto(c, "init")
  /\ UNCHANGED << diagrams, type, text, metadata, loaded, parsed, defn, ret, log,
                  regAtEntry, failedAtEntry, starts, dbContent, dbTitle, yy, pre, norm, facade >>

\* a fromText that waits with db.clear() until no other call's parse is
\* active on the db
DbClearWhenNoParseActive(c) ==
  /\ cur = c
  /\ pc[c] = "clear"
  /\ \A c2 \in Calls \ { c } :
       ~(pc[c2] = "awaitParse" /\ DbOf(defn[c2]) = DbOf(defn[c]))
  /\ IF HasClear(defn[c])
       THEN /\ dbContent' = [ dbContent EXCEPT ![DbOf(defn[c])] = <<>> ]
            /\ dbTitle' = [ dbTitle EXCEPT ![DbOf(defn[c])] = "" ]
            /\ Called(c, "clear", <<>>)
       ELSE UNCHANGED << dbContent, dbTitle, log >>
  /\ Goto(c, "init")
  /\ UNCHANGED << diagrams, type, text, metadata, loaded, parsed, defn, ret,
                  regAtEntry, failedAtEntry, starts, yy, pre, norm, facade >>

\* line 56: db.clear?.()
DbClear(c) ==
  /\ cur = c
  /\ pc[c] = "clear"
  /\ IF HasClear(defn[c])
       THEN /\ dbContent' = [ dbContent EXCEPT ![DbOf(defn[c])] = <<>> ]
            /\ dbTitle' = [ dbTitle EXCEPT ![DbOf(defn[c])] = "" ]
            /\ Called(c, "clear", <<>>)
       ELSE UNCHANGED << dbContent, dbTitle, log >>
  /\ Goto(c, "init")
  /\ UNCHANGED << diagrams, type, text, metadata, loaded, parsed, defn, ret,
                  regAtEntry, failedAtEntry, starts, yy, pre, norm, facade >>

\* a fromText that awaits init: `await init?.(config)` gives up the thread
InitDefAwaits(c) ==
  /\ cur = c
  /\ pc[c] = "init"
  /\ IF HasInit(defn[c]) THEN Called(c, "init", <<>>) ELSE UNCHANGED log
  /\ pc' = [ pc EXCEPT ![c] = "title" ]
  /\ cur' = 0
  /\ UNCHANGED << diagrams, type, text, metadata, loaded, parsed, defn, ret,
                  regAtEntry, failedAtEntry, starts, dbContent, dbTitle, yy,
                  pre, norm, facade >>

\* line 57: init?.(config)
InitDef(c) ==
  /\ cur = c
  /\ pc[c] = "init"
  /\ IF HasInit(defn[c]) THEN Called(c, "init", <<>>) ELSE UNCHANGED log
  /\ Goto(c, "title")
  /\ UNCHANGED << diagrams, type, text, metadata, loaded, parsed, defn, ret,
                  regAtEntry, failedAtEntry, starts, dbContent, dbTitle, yy, pre, norm, facade >>

\* a fromText without the `if (metadata.title)` guard
SetTitleUnguarded(c) ==
  /\ cur = c
  /\ pc[c] = "title"
  /\ IF HasSetDiagramTitle(defn[c])
       THEN /\ dbTitle' = [ dbTitle EXCEPT ![DbOf(defn[c])] = metadata[c] ]
            /\ Called(c, "setDiagramTitle", << metadata[c] >>)
       ELSE UNCHANGED << dbTitle, log >>
  /\ Goto(c, "parse")
  /\ UNCHANGED << diagrams, type, text, metadata, loaded, parsed, defn, ret,
                  regAtEntry, failedAtEntry, starts, dbContent, yy, pre, norm, facade >>

\* lines 59-61: if (metadata.title) db.setDiagramTitle?.(metadata.title)
SetTitle(c) ==
  /\ cur = c
  /\ pc[c] = "title"
  /\ IF Truthy(metadata[c]) /\ HasSetDiagramTitle(defn[c])
       THEN /\ dbTitle' = [ dbTitle EXCEPT ![DbOf(defn[c])] = metadata[c] ]
            /\ Called(c, "setDiagramTitle", << metadata[c] >>)
       ELSE UNCHANGED << dbTitle, log >>
  /\ Goto(c, "parse")
  /\ UNCHANGED << diagrams, type, text, metadata, loaded, parsed, defn, ret,
                  regAtEntry, failedAtEntry, starts, dbContent, yy, pre, norm, facade >>

\* line 63: parser.parse(text) is invoked and the call suspends at the await
CallParse(c) ==
  /\ cur = c
  /\ pc[c] = "parse"
  /\ Called(c, "parse", text[c])
  /\ pc' = [ pc EXCEPT ![c] = "awaitParse" ]
  /\ cur' = 0
  /\ UNCHANGED << diagrams, type, text, metadata, loaded, parsed, defn, ret,
                  regAtEntry, failedAtEntry, starts, dbContent, dbTitle, yy, pre, norm, facade >>

\* the parser's promise settles; a successful parse has filled the db
ParseSettles(c, outcome) ==
  /\ cur = 0
  /\ pc[c] = "awaitParse"
  /\ parsed[c].status = "pending"
  /\ parsed' = [ parsed EXCEPT ![c] = outcome ]
  /\ IF outcome.status = "fulfilled"
       THEN dbContent' = [ dbContent EXCEPT ![DbOf(defn[c])] = text[c] ]
       ELSE UNCHANGED dbContent
  /\ UNCHANGED << diagrams, cur, pc, type, text, metadata, loaded, defn, ret, log,
                  regAtEntry, failedAtEntry, starts, dbTitle, yy, pre, norm, facade >>

\* a fromText that parses again when the parse fails
ResumeAfterParseRetries(c) ==
  /\ cur = 0
  /\ pc[c] = "awaitParse"
  /\ parsed[c].status # "pending"
  /\ IF parsed[c].status = "rejected"
       THEN /\ pc' = [ pc EXCEPT ![c] = "parse" ]
            /\ cur' = c
            /\ parsed' = [ parsed EXCEPT ![c] = Pending ]
            /\ UNCHANGED ret
       ELSE /\ ret' = [ ret EXCEPT ![c] =
                 NewDiagram(type[c], text[c], DbOf(defn[c]), ParserOf(defn[c]),
                            RendererOf(defn[c])) ]
            /\ pc' = [ pc EXCEPT ![c] = "done" ]
            /\ cur' = 0
            /\ UNCHANGED parsed
  /\ UNCHANGED << diagrams, type, text, metadata, loaded, defn, log,
                  regAtEntry, failedAtEntry, starts, dbContent, dbTitle, yy, pre, norm, facade >>

\* lines 63-64: the await resumes; return new Diagram(...) or rethrow
ResumeAfterParse(c) ==
  /\ cur = 0
  /\ pc[c] = "awaitParse"
  /\ parsed[c].status # "pending"
  /\ IF parsed[c].status = "rejected"
       THEN Throw(c, parsed[c].err)
       ELSE /\ ret' = [ ret EXCEPT ![c] =
                 NewDiagram(type[c], text[c], DbOf(defn[c]), ParserOf(defn[c]),
                            RendererOf(defn[c])) ]
            /\ pc' = [ pc EXCEPT ![c] = "done" ]
            /\ cur' = 0
  /\ UNCHANGED << diagrams, type, text, metadata, loaded, parsed, defn, log,
                  regAtEntry, failedAtEntry, starts, dbContent, dbTitle, yy, pre, norm, facade >>

LoaderOutcomes ==
  { Fulfilled(id, d) : id \in LoaderIds, d \in Defs } \cup { Rejected(e) : e \in LoaderErrors }

ParseOutcomes == { Fulfilled("", NoDef) } \cup { Rejected(e) : e \in ParseErrors }

Next ==
  \/ \E c \in Calls, r \in Requests : Start(c, r[1], r[2])
  \/ \E c \in Calls : TryGetDiagram(c)
  \/ \E c \in Calls : GetLoader(c)
  \/ \E c \in Calls : CallLoader(c)
  \/ \E c \in Calls, o \in LoaderOutcomes : LoaderSettles(c, o)
  \/ \E c \in Calls : ResumeAfterLoader(c)
  \/ \E c \in Calls : Register(c)
  \/ \E c \in Calls : Lookup(c)
  \/ \E c \in Calls : BindYY(c)
  \/ \E c \in Calls : DbClear(c)
  \/ \E c \in Calls : InitDef(c)
  \/ \E c \in Calls : SetTitle(c)
  \/ \E c \in Calls : CallParse(c)
  \/ \E c \in Calls, o \in ParseOutcomes : ParseSettles(c, o)
  \/ \E c \in Calls : ResumeAfterParse(c)

Spec == Init /\ [][Next]_vars

\* ------------------------------------------------------------- Diagram facade
\* the arguments callers pass to render(id, version)
RenderIds == { "mermaid-svg-1" }
Versions == { "11.4.0" }
DrawErrors == { "DrawError" }

\* the fromText invocations whose facades are operated on
FacadeRequests ==
  { r \in Requests : detectType(r[1]) = "flowchart" }

\* the loads those invocations wait for
FacadeLoads ==
  { Fulfilled("flowchart", d) : d \in Defs } \cup { Rejected(e) : e \in LoaderErrors }

\* renderer.draw(text, id, version, diagObj)
Draw(renderer, tx, id, version, c) ==
  [ renderer |-> renderer, text |-> tx, id |-> id, version |-> version, diagObj |-> c ]

\* a render that parses the text again before it draws
RenderReparses(c, id, version) ==
  /\ cur = 0
  /\ ret[c].kind = "diagram"
  /\ facade' = [ FacadeIdle EXCEPT
                   !.op = "render", !.this = c, !.id = id, !.version = version,
                   !.status = "pending",
                   !.draws = << Draw(ret[c].renderer, ret[c].text, id, version, c) >> ]
  /\ log' = [ log EXCEPT ![c] = Append(@, Ev("parse", ret[c].text)) ]
  /\ dbContent' = [ dbContent EXCEPT ![ret[c].db] = ret[c].text ]
  /\ UNCHANGED << diagrams, cur, pc, type, text, metadata, loaded, parsed, defn, ret,
                  regAtEntry, failedAtEntry, starts, dbTitle, yy, pre, norm >>

\* lines 75-77: render(id, version) on the facade call c returned:
\* this.renderer.draw(this.text, id, version, this) is invoked and awaited
Render(c, id, version) ==
  /\ cur = 0
  /\ ret[c].kind = "diagram"
  /\ facade' = [ FacadeIdle EXCEPT
                   !.op = "render", !.this = c, !.id = id, !.version = version,
                   !.status = "pending",
                   !.draws = << Draw(ret[c].renderer, ret[c].text, id, version, c) >> ]
  /\ UNCHANGED << diagramVars, pre, norm >>

\* lines 75-77: draw's promise settles and render's promise settles with it
RenderSettles(outcome) ==
  /\ cur = 0
  /\ facade.op = "render"
  /\ facade.status = "pending"
  /\ facade' = [ facade EXCEPT !.status = outcome ]
  /\ UNCHANGED << diagramVars, pre, norm >>

\* lines 79-81: getParser()
GetParser(c) ==
  /\ cur = 0
  /\ ret[c].kind = "diagram"
  /\ facade' = [ FacadeIdle EXCEPT !.op = "getParser", !.this = c, !.status = "returned",
                                   !.parser = ret[c].parser ]
  /\ UNCHANGED << diagramVars, pre, norm >>

\* lines 83-85: getType()
GetType(c) ==
  /\ cur = 0
  /\ ret[c].kind = "diagram"
  /\ facade' = [ FacadeIdle EXCEPT !.op = "getType", !.this = c, !.status = "returned",
                                   !.type = ret[c].type ]
  /\ UNCHANGED << diagramVars, pre, norm >>

FacadeNext ==
  \/ \E c \in Calls, r \in FacadeRequests : Start(c, r[1], r[2])
  \/ \E c \in Calls : TryGetDiagram(c)
  \/ \E c \in Calls : GetLoader(c)
  \/ \E c \in Calls : CallLoader(c)
  \/ \E c \in Calls, o \in FacadeLoads : LoaderSettles(c, o)
  \/ \E c \in Calls : ResumeAfterLoader(c)
  \/ \E c \in Calls : Register(c)
  \/ \E c \in Calls : Lookup(c)
  \/ \E c \in Calls : BindYY(c)
  \/ \E c \in Calls : DbClear(c)
  \/ \E c \in Calls : InitDef(c)
  \/ \E c \in Calls : SetTitle(c)
  \/ \E c \in Calls : CallParse(c)
  \/ \E c \in Calls, o \in ParseOutcomes : ParseSettles(c, o)
  \/ \E c \in Calls : ResumeAfterParse(c)
  \/ \E c \in Calls, id \in RenderIds, v \in Versions : Render(c, id, v)
  \/ \E o \in { "fulfilled" } \cup DrawErrors : RenderSettles(o)
  \/ \E c \in Calls : GetParser(c)
  \/ \E c \in Calls : GetType(c)

FacadeSpec == Init /\ [][FacadeNext]_vars

\* ------------------------------------------------------------- preprocessDiagram
Traced(stage, input) == Append(pre.trace, << stage, input >>)

\* what each collaborator throws when it fails
CollaboratorError ==
  [ extractFrontMatter |-> "MalformedFrontMatter",
    detectInit |-> "MalformedDirective",
    detectDirective |-> "DetectDirectiveError",
    removeDirectives |-> "RemoveDirectivesError",
    cleanAndMerge |-> "MergeError",
    cleanupComments |-> "CommentError" ]

\* an exception leaves preprocessDiagram: nothing catches it
Raised(e, trace) == [ pre EXCEPT !.pc = "failed", !.error = e, !.trace = trace ]

\* line 56: preprocessDiagram(code) is called
PreprocessCall ==
  /\ pre.pc = "idle"
  /\ \E code \in Codes :
       pre' = [ pre EXCEPT !.pc = "cleanupText", !.input = code, !.code = code ]
  /\ UNCHANGED << diagramVars, norm, facade >>

\* line 58: const cleanedCode = cleanupText(code)
CleanupTextStep ==
  /\ pre.pc = "cleanupText"
  /\ pre' = [ pre EXCEPT !.pc = "processFrontmatter",
                         !.cleanedCode = cleanupText(pre.code),
                         !.trace = Traced("cleanupText", pre.code) ]
  /\ UNCHANGED << diagramVars, norm, facade >>

\* line 60: const frontMatterResult = processFrontmatter(cleanedCode)
FrontmatterStep ==
  /\ pre.pc = "processFrontmatter"
  /\ \E throws \in BOOLEAN :
       LET r == processFrontmatter(pre.cleanedCode)
           trace == Traced("extractFrontMatter", pre.cleanedCode)
       IN pre' = IF throws THEN Raised(CollaboratorError.extractFrontMatter, trace)
                 ELSE IF r.error # "" THEN Raised(r.error, trace)
                 ELSE [ pre EXCEPT !.pc = "processDirectives",
                                   !.frontMatterResult = r,
                                   !.trace = trace ]
  /\ UNCHANGED << diagramVars, norm, facade >>

\* the collaborators processDirectives calls, in the order it calls them
DirectiveStages == << "detectInit", "detectDirective", "removeDirectives" >>

\* the calls processDirectives(code) makes up to its n-th collaborator
DirectiveCalls(code, n) ==
  pre.trace \o [ i \in 1..n |-> << DirectiveStages[i], code >> ]

\* a preprocessDiagram that hands the directive stage the text that still
\* carries the front matter
DirectivesStepOnCleanedCode ==
  /\ pre.pc = "processDirectives"
  /\ \E fault \in 0..3 :
       pre' = IF fault # 0
                THEN Raised(CollaboratorError[DirectiveStages[fault]],
                            DirectiveCalls(pre.cleanedCode, fault))
                ELSE [ pre EXCEPT !.pc = "cleanAndMerge",
                                  !.directiveResult = processDirectives(pre.cleanedCode),
                                  !.trace = DirectiveCalls(pre.cleanedCode, 3) ]
  /\ UNCHANGED << diagramVars, norm, facade >>

\* line 61: const directiveResult = processDirectives(frontMatterResult.text);
\* collaborator number `fault` throws (0: none does)
DirectivesStep ==
  /\ pre.pc = "processDirectives"
  /\ \E fault \in 0..3 :
       pre' = IF fault # 0
                THEN Raised(CollaboratorError[DirectiveStages[fault]],
                            DirectiveCalls(pre.frontMatterResult.text, fault))
                ELSE [ pre EXCEPT !.pc = "cleanAndMerge",
                                  !.directiveResult =
                                     processDirectives(pre.frontMatterResult.text),
                                  !.trace = DirectiveCalls(pre.frontMatterResult.text, 3) ]
  /\ UNCHANGED << diagramVars, norm, facade >>

\* line 64: const config = cleanAndMerge(frontMatterResult.config, directiveResult.directive)
MergeStep ==
  /\ pre.pc = "cleanAndMerge"
  /\ \E throws \in BOOLEAN :
       pre' = IF throws
                THEN Raised(CollaboratorError.cleanAndMerge, Traced("cleanAndMerge", <<>>))
                ELSE [ pre EXCEPT !.pc = "cleanupComments",
                                  !.config = cleanAndMerge(pre.frontMatterResult.config,
                                                           pre.directiveResult.directive),
                                  !.trace = Traced("cleanAndMerge", <<>>) ]
  /\ UNCHANGED << diagramVars, norm, facade >>

\* line 66: code = cleanupComments(directiveResult.text)
CommentsStep ==
  /\ pre.pc = "cleanupComments"
  /\ \E throws \in BOOLEAN :
       pre' = IF throws
                THEN Raised(CollaboratorError.cleanupComments,
                            Traced("cleanupComments", pre.directiveResult.text))
                ELSE [ pre EXCEPT !.pc = "return",
                                  !.code = cleanupComments(pre.directiveResult.text),
                                  !.trace = Traced("cleanupComments", pre.directiveResult.text) ]
  /\ UNCHANGED << diagramVars, norm, facade >>

\* lines 67-71: return { code, title: frontMatterResult.title, config }
ReturnStep ==
  /\ pre.pc = "return"
  /\ pre' = [ pre EXCEPT !.pc = "done",
                         !.result = [ code |-> pre.code,
                                      title |-> pre.frontMatterResult.title,
                                      config |-> pre.config ] ]
  /\ UNCHANGED << diagramVars, norm, facade >>

PreNext ==
  \/ PreprocessCall
  \/ CleanupTextStep
  \/ FrontmatterStep
  \/ DirectivesStep
  \/ MergeStep
  \/ CommentsStep
  \/ ReturnStep

PreSpec == Init /\ [][PreNext]_vars

\* ------------------------------------------------------------- cleanupText
\* longest text fed to cleanupText
MaxTextLen == 6

\* the characters the two replaces of cleanupText tell apart
NormChars == { "\r", "\n", "<", ">", "=", "\"", "a" }

NormTexts == UNION { [ 1..n -> NormChars ] : n \in 0..MaxTextLen }

\* lines 10-21: cleanupText(code) is called
CleanupTextCall ==
  /\ norm.pc = "idle"
  /\ \E code \in NormTexts :
       norm' = [ norm EXCEPT !.pc = "called", !.input = code, !.once = cleanupText(code) ]
  /\ UNCHANGED << diagramVars, pre, facade >>

\* lines 10-21: cleanupText is called on what it returned
CleanupTextAgain ==
  /\ norm.pc = "called"
  /\ norm' = [ norm EXCEPT !.pc = "again", !.twice = cleanupText(norm.once) ]
  /\ UNCHANGED << diagramVars, pre, facade >>

NormNext ==
  \/ CleanupTextCall
  \/ CleanupTextAgain

NormSpec == Init /\ [][NormNext]_vars

\* ------------------------------------------------------------- properties
Ops(c) == [ i \in 1..Len(log[c]) |-> log[c][i][1] ]
HasCalled(c, op) == \E i \in 1..Len(log[c]) : log[c][i][1] = op
TimesCalled(c, op) == Cardinality({ i \in 1..Len(log[c]) : log[c][i][1] = op })
IsPrefix(a, b) == Len(a) <= Len(b) /\ a = SubSeq(b, 1, Len(a))
Started(c) == pc[c] # "idle"

\* C1: once a fromText call has loaded and registered tag t, every call for t
\* that starts afterwards invokes neither the loader nor registerDiagram, and
\* all calls for t get the same definition (same db, parser and renderer), so
\* no loader runs for t after its registration.
C1_RegistryIdempotence ==
  \A c \in Calls :
    /\ regAtEntry[c] =>
         /\ ~HasCalled(c, "loader")
         /\ ~HasCalled(c, "registerDiagram")
         /\ pc[c] \notin { "getLoader", "callLoader", "awaitLoader", "register" }
    /\ \A c2 \in Calls :
         /\ (defn[c] # NoDef /\ defn[c2] # NoDef /\ type[c] = type[c2])
              => defn[c] = defn[c2]
         /\ (ret[c].kind = "diagram" /\ ret[c2].kind = "diagram"
               /\ ret[c].type = ret[c2].type)
              => /\ ret[c].db = ret[c2].db
                 /\ ret[c].parser = ret[c2].parser
                 /\ ret[c].renderer = ret[c2].renderer

\* a second call, started after the first one returned its Diagram, has got
\* the first call's definition without loading
C1_Witness ==
  \E c1, c2 \in Calls :
    /\ c1 # c2
    /\ pc[c1] = "done" /\ ret[c1].kind = "diagram" /\ HasCalled(c1, "loader")
    /\ cur = c2 /\ pc[c2] = "bindYY" /\ regAtEntry[c2]
    /\ type[c2] = ret[c1].type /\ DbOf(defn[c2]) = ret[c1].db

\* C2: overlapping fromText calls for one unregistered tag never have two
\* loads of that tag in flight at once (the loader runs at most once).
C2_NoDoubleLoad ==
  \A c1, c2 \in Calls :
    (c1 # c2 /\ pc[c1] = "awaitLoader" /\ pc[c2] = "awaitLoader")
      => type[c1] # type[c2]

\* call c is for a tag with neither a registered definition nor a loader
C3_Unknown(c) == type[c] \in Tags /\ ~regAtEntry[c] /\ ~getDiagramLoader(type[c])

C3_UnknownTypeInv ==
  \A c \in Calls :
    (Started(c) /\ C3_Unknown(c)) =>
      /\ log[c] = <<>>
      /\ defn[c] = NoDef
      /\ pc[c] \in { "getDiagram", "getLoader", "done" }
      /\ pc[c] = "done" => ret[c] = ErrRet("UnknownDiagramError")

C3_UnknownTypeFrame ==
  \A c \in Calls :
    (cur = c /\ C3_Unknown(c)) =>
      /\ diagrams' = diagrams
      /\ dbContent' = dbContent /\ dbTitle' = dbTitle /\ yy' = yy

\* C3: a tag with neither a registered definition nor a loader makes fromText
\* reject with UnknownDiagramError, with the registry untouched and none of
\* clear, init, setDiagramTitle, parse (nor any other collaborator) invoked.
C3_UnknownType == [](C3_UnknownTypeInv) /\ [][C3_UnknownTypeFrame]_vars

C3_Witness ==
  \E c \in Calls :
    /\ pc[c] = "done" /\ type[c] = "doesnotexist"
    /\ ret[c] = ErrRet("UnknownDiagramError")

LifecycleOps == { "yy", "clear", "init", "setDiagramTitle", "parse" }
Lifecycle(c) == SelectSeq(Ops(c), LAMBDA op : op \in LifecycleOps)

ExpectedLifecycle(c) ==
  (IF HasParserParser(defn[c]) THEN << "yy" >> ELSE <<>>)
  \o (IF HasClear(defn[c]) THEN << "clear" >> ELSE <<>>)
  \o (IF HasInit(defn[c]) THEN << "init" >> ELSE <<>>)
  \o (IF Truthy(metadata[c]) /\ HasSetDiagramTitle(defn[c])
        THEN << "setDiagramTitle" >> ELSE <<>>)
  \o << "parse" >>

\* C5: the lifecycle steps of a call happen in the order yy binding, clear,
\* init, setDiagramTitle, parse, each at most once and each only when the
\* definition offers it; none happens before the definition is resolved, and
\* parse never runs on a db with clear() that this call has not cleared.
C5_LifecycleOrder ==
  \A c \in Calls :
    /\ defn[c] = NoDef => Lifecycle(c) = <<>>
    /\ defn[c] # NoDef =>
         /\ IsPrefix(Lifecycle(c), ExpectedLifecycle(c))
         /\ pc[c] \in { "awaitParse", "done" } => Lifecycle(c) = ExpectedLifecycle(c)
         /\ (HasCalled(c, "parse") /\ HasClear(defn[c])) => HasCalled(c, "clear")
         /\ (HasCalled(c, "yy") /\ pc[c] = "clear") => yy[ParserOf(defn[c])] = DbOf(defn[c])

\* a call that performed all five steps
C5_Witness ==
  \E c \in Calls :
    /\ pc[c] = "awaitParse"
    /\ Lifecycle(c) = << "yy", "clear", "init", "setDiagramTitle", "parse" >>

\* C6: when parser.parse fails, fromText rejects with that error and returns
\* no Diagram, parse was invoked exactly once in the call (no call ever
\* parses twice), and the tag is still registered.
C6_ParseErrorPropagates ==
  \A c \in Calls :
    /\ TimesCalled(c, "parse") <= 1
    /\ (pc[c] = "done" /\ parsed[c].status = "rejected") =>
         /\ ret[c] = ErrRet(parsed[c].err)
         /\ TimesCalled(c, "parse") = 1
         /\ diagrams[type[c]] # NoDef
         /\ diagrams[type[c]] = defn[c]

C6_Witness ==
  \E c \in Calls :
    /\ pc[c] = "done" /\ parsed[c].status = "rejected"
    /\ ret[c].kind = "error" /\ ret[c].err \in ParseErrors

\* C7: setDiagramTitle is called iff the caller's metadata title is non-empty
\* and the db offers it, with that title and no other, after clear and before
\* parse, so that the db holds the title when the parse starts.
C7_TitleApplication ==
  \A c \in Calls :
    LET applied == HasCalled(c, "setDiagramTitle")
        pastTitle == defn[c] # NoDef /\ pc[c] \in { "parse", "awaitParse", "done" }
    IN /\ ~pastTitle => ~applied
       /\ pastTitle =>
            (applied <=> (Truthy(metadata[c]) /\ HasSetDiagramTitle(defn[c])))
       /\ \A i \in 1..Len(log[c]) :
            log[c][i][1] = "setDiagramTitle" =>
              /\ log[c][i][2] = << metadata[c] >>
              /\ \A j \in 1..Len(log[c]) :
                   /\ log[c][j][1] = "clear" => j < i
                   /\ log[c][j][1] = "parse" => j > i
       /\ (applied /\ pc[c] = "parse") => dbTitle[DbOf(defn[c])] = metadata[c]
       /\ (pastTitle /\ ~applied /\ pc[c] = "parse" /\ HasClear(defn[c]))
            => dbTitle[DbOf(defn[c])] = ""

\* the title was set after a clear and the parse is about to start
C7_Witness ==
  \E c \in Calls :
    /\ pc[c] = "parse" /\ HasCalled(c, "clear") /\ HasCalled(c, "setDiagramTitle")
    /\ dbTitle[DbOf(defn[c])] = "Caller title"

\* facades of one tag share the registry's definition, one parse each
C8_SharedInv ==
  \A c1 \in Calls :
    ret[c1].kind = "diagram" =>
      /\ ret[c1].db = DbOf(diagrams[ret[c1].type])
      /\ ret[c1].parser = ParserOf(diagrams[ret[c1].type])
      /\ ret[c1].renderer = RendererOf(diagrams[ret[c1].type])
      /\ TimesCalled(c1, "parse") = 1
      /\ \A i \in 1..Len(log[c1]) :
           log[c1][i][1] = "parse" => log[c1][i][2] = ret[c1].text
      /\ \A c2 \in Calls :
           (ret[c2].kind = "diagram" /\ ret[c2].type = ret[c1].type) =>
             /\ ret[c1].db = ret[c2].db
             /\ ret[c1].parser = ret[c2].parser
             /\ ret[c1].renderer = ret[c2].renderer

\* a completed parse is what every facade of the tag then sees in its db
C8_SharedStep ==
  \A c2 \in Calls :
    (parsed[c2].status = "pending" /\ parsed'[c2].status = "fulfilled") =>
      \A c1 \in Calls :
        (ret[c1].kind = "diagram" /\ ret[c1].type = type[c2]) =>
          dbContent'[ret[c1].db] = text[c2]

\* C8: Diagrams of one tag hold the registry's one db, parser and renderer;
\* each was made by its own single parse of its own text; and when a later
\* parse on that db completes, the db every earlier facade of the tag refers
\* to holds what that later parse produced.
C8_SharedModel == [](C8_SharedInv) /\ [][C8_SharedStep]_vars

\* two facades of one tag made from different texts: the db of the first
\* holds the second one's parse
C8_Witness ==
  \E c1, c2 \in Calls :
    /\ ret[c1].kind = "diagram" /\ ret[c2].kind = "diagram"
    /\ ret[c1].type = ret[c2].type /\ ret[c1].text # ret[c2].text
    /\ ret[c1].db = ret[c2].db
    /\ dbContent[ret[c1].db] = ret[c2].text
    /\ c1 < c2 /\ regAtEntry[c2]

\* the stages preprocessDiagram is to run, and what it has run so far
ExpectedStages ==
  << "cleanupText", "extractFrontMatter", "detectInit", "detectDirective",
     "removeDirectives", "cleanAndMerge", "cleanupComments" >>

StageNames == [ i \in 1..Len(pre.trace) |-> pre.trace[i][1] ]
StageInput(i) == pre.trace[i][2]

\* C9: preprocessDiagram runs cleanupText, extractFrontMatter, detectInit,
\* detectDirective, removeDirectives, cleanAndMerge, cleanupComments once each
\* in that order, each on the text the previous one produced, and returns the
\* comment-stripped text, the front-matter title and
\* cleanAndMerge(frontMatterConfig, directiveConfig).
C9_StageOrder ==
  LET n == Len(pre.trace)
      cleaned == cleanupText(pre.input)
      fm == extractFrontMatter(cleaned)
      stripped == removeDirectives(fm.text)
  IN /\ IsPrefix(StageNames, ExpectedStages)
     /\ pre.pc \in { "return", "done" } => StageNames = ExpectedStages
     /\ n >= 1 => StageInput(1) = pre.input
     /\ n >= 2 => StageInput(2) = cleaned
     /\ n >= 5 => \A i \in 3..5 : StageInput(i) = fm.text
     /\ n >= 7 => StageInput(7) = stripped
     /\ pre.pc = "done" =>
          /\ pre.result.code = cleanupComments(stripped)
          /\ pre.result.title =
               (IF Has(fm.metadata, "title") THEN fm.metadata["title"].s ELSE NoTitle)
          /\ pre.result.config =
               cleanAndMerge(processFrontmatter(cleaned).config,
                             processDirectives(fm.text).directive)

\* a source with front matter, a directive and a comment went through
C9_Witness ==
  /\ pre.pc = "done"
  /\ pre.input = << "---compact+theme---", "%%{init:theme}%%", "%% note" >>
  /\ pre.result.code = <<>>
  /\ pre.result.config["theme"] = Str("forest")

\* C10: with a non-empty displayMode in the front matter, the config returned
\* by processFrontmatter has gantt.displayMode equal to it, gantt created when
\* missing, and every other key of config and of an existing gantt kept;
\* without one, the config is the front-matter config ({} when none).
C10_DisplayModeProjection ==
  pre.pc \in { "processDirectives", "cleanAndMerge", "cleanupComments", "return", "done" } =>
    LET md == extractFrontMatter(pre.cleanedCode).metadata
        cfg == IF Has(md, "config") THEN md["config"].o ELSE Empty
        out == pre.frontMatterResult.config
        old == IF Has(cfg, "gantt") /\ cfg["gantt"].t = "obj" THEN cfg["gantt"].o ELSE Empty
    IN IF Has(md, "displayMode") /\ md["displayMode"].s # ""
         THEN /\ DOMAIN out = DOMAIN cfg \cup { "gantt" }
              /\ \A k \in DOMAIN cfg \ { "gantt" } : out[k] = cfg[k]
              /\ out["gantt"].t = "obj"
              /\ DOMAIN out["gantt"].o = DOMAIN old \cup { "displayMode" }
              /\ out["gantt"].o["displayMode"] = md["displayMode"]
              /\ \A k \in DOMAIN old \ { "displayMode" } : out["gantt"].o[k] = old[k]
         ELSE out = cfg

\* displayMode was projected into a gantt object that already had other keys
C10_Witness ==
  /\ pre.pc = "processDirectives"
  /\ Len(pre.cleanedCode) > 0 /\ Head(pre.cleanedCode) = "---compact+gantt---"
  /\ pre.frontMatterResult.config["gantt"].o["displayMode"] = Str("compact")
  /\ pre.frontMatterResult.config["gantt"].o["barHeight"] = Str("20")

\* the types of the directives detectDirective(code, 'wrap') returns
WrapTypes(code) ==
  LET d == detectDirective(code)
  IN { d.types[i] : i \in 1..Len(d.types) }

\* processDirectives has returned for the text left after the front matter
DirectivesDone ==
  pre.pc \in { "cleanAndMerge", "cleanupComments", "return", "done" }

\* C11: when at least one directive returned by detectDirective(code, 'wrap')
\* has type 'wrap', processDirectives returns the init directive with
\* wrap = true, whether one directive or a list came back, so that one wrap
\* directive and several give the same result.
C11_WrapDetection ==
  DirectivesDone =>
    LET code == pre.frontMatterResult.text
    IN "wrap" \in WrapTypes(code) =>
         /\ pre.directiveResult.directive = Set(detectInit(code).o, "wrap", True)
         /\ pre.directiveResult.directive =
              processDirectives(SelectSeq(code, LAMBDA tok : tok # "%%{wrap}%%")
                                \o << "%%{wrap}%%" >>).directive

\* a list of two wrap directives came back and wrap is true
C11_Witness ==
  /\ DirectivesDone
  /\ detectDirective(pre.frontMatterResult.text).isArray
  /\ detectDirective(pre.frontMatterResult.text).types = << "wrap", "wrap" >>
  /\ pre.directiveResult.directive["wrap"] = True

\* C12: cleanupText applied to its own output returns that output, for the
\* line-ending rewrite and for the quote rewrite inside tags, malformed tags
\* and unbalanced quotes included.
C12_NormalizerIdempotent ==
  norm.pc = "again" => norm.twice = norm.once

\* a tag whose double quotes were rewritten went through cleanupText twice
C12_Witness ==
  /\ norm.pc = "again"
  /\ norm.input = << "<", "a", "=", "\"", "\"", ">" >>
  /\ norm.once = << "<", "a", "=", "'", "'", ">" >>
  /\ norm.twice = norm.once

\* the text with each CR-LF pair and each lone CR turned into one LF: the LF
\* of a pair is dropped and every CR becomes LF
Canonical(code) ==
  LET kept == { i \in 1..Len(code) : ~(code[i] = "\n" /\ i > 1 /\ code[i - 1] = "\r") }
      Rank(i) == Cardinality({ j \in kept : j <= i })
  IN [ n \in 1..Cardinality(kept) |->
         LET i == CHOOSE i \in kept : Rank(i) = n
         IN IF code[i] = "\r" THEN "\n" ELSE code[i] ]

\* the quote rewrite does not tell the two quote characters apart
Unquoted(code) == [ i \in 1..Len(code) |-> IF code[i] = "'" THEN "\"" ELSE code[i] ]

\* C13: the output of cleanupText has no carriage return; each CR-LF pair and
\* each lone CR of the input has become exactly one LF, every LF of the input
\* is kept, and nothing else moves.
C13_LineEndings ==
  norm.pc # "idle" =>
    /\ \A i \in 1..Len(norm.once) : norm.once[i] # "\r"
    /\ Unquoted(norm.once) = Unquoted(Canonical(norm.input))

\* a CR-LF pair, a lone CR and a LF each gave one LF
C13_Witness ==
  /\ norm.pc = "called"
  /\ norm.input = << "a", "\r", "\n", "\r", "a", "\n" >>
  /\ norm.once = << "a", "\n", "\n", "a", "\n" >>

\* C14: preprocessDiagram raises no error of its own: when it fails, a
\* collaborator stage has failed, the error is that collaborator's, the
\* failing collaborator is the last stage that ran and no result, not even a
\* partial one, is returned.
C14_ErrorPropagation ==
  /\ pre.pc = "failed" =>
       /\ pre.trace # <<>>
       /\ LET last == pre.trace[Len(pre.trace)][1]
          IN /\ last \in DOMAIN CollaboratorError
             /\ pre.error = CollaboratorError[last]
       /\ pre.result = NoResult
  /\ pre.pc = "done" => pre.error = ""

\* what the last facade operation did, against the facade it was made on
C15_FacadeInv ==
  facade.op # "none" =>
    LET c == facade.this
    IN /\ ret[c].kind = "diagram"
       /\ facade.op = "render" =>
            /\ facade.draws =
                 << Draw(RendererOf(defn[c]), text[c], facade.id, facade.version, c) >>
            /\ facade.id \in RenderIds /\ facade.version \in Versions
            /\ \E r \in Requests :
                 /\ detectType(r[1]) = type[c]
                 /\ facade.draws[1].text = Append(encodeEntities(r[1]), "\n")
            /\ \A i \in 1..Len(log[c]) :
                 log[c][i][1] = "parse" => log[c][i][2] = facade.draws[1].text
       /\ facade.op = "getParser" =>
            facade.draws = <<>> /\ facade.parser = ParserOf(defn[c])
       /\ facade.op = "getType" =>
            facade.draws = <<>> /\ facade.type = type[c]

\* a facade operation touches nothing of fromText, the registry or the dbs
C15_FacadeFrame ==
  facade' # facade =>
    /\ UNCHANGED diagramVars
    /\ facade.status = "pending" /\ facade'.op = "render" /\ facade'.status # "pending"
         => facade'.draws = facade.draws

\* C15: render(id, version) invokes renderer.draw exactly once, with the
\* facade's text (the encoded input plus newline, the text that was parsed),
\* the given id and version and the facade itself, and calls no loader,
\* registerDiagram, clear, init or parse; getParser() and getType() return
\* the facade's parser and type tag and change no state.
C15_FacadeOperations == [](C15_FacadeInv) /\ [][C15_FacadeFrame]_vars

\* a facade made from a text with an entity was rendered
C15_Witness ==
  /\ facade.op = "render" /\ facade.status = "fulfilled"
  /\ Len(facade.draws) = 1
  /\ facade.draws[1].text = << "flowchart", "fl°°9829¶ß", "\n" >>
  /\ facade.draws[1].id = "mermaid-svg-1" /\ facade.draws[1].version = "11.4.0"

\* the parse of call c is active: parser.parse was invoked and fromText has
\* not resumed from its await
ParseActive(c) == pc[c] = "awaitParse"

\* C16: nothing in fromText waits for a parse that is active on the shared
\* db: a later call for the same registered tag that has reached db.clear()
\* or parser.parse can take that step while an earlier call's parse is still
\* suspended, and the earlier call returns its Diagram all the same once its
\* own parse has succeeded.
C16_NoSingleActiveParse ==
  \A c1 \in Calls :
    /\ \A c2 \in Calls :
         (c1 # c2 /\ ParseActive(c1) /\ cur = c2 /\ defn[c2] = defn[c1]) =>
           /\ pc[c2] = "clear" => ENABLED DbClear(c2)
           /\ pc[c2] = "parse" => ENABLED CallParse(c2)
    /\ (pc[c1] = "done" /\ parsed[c1].status = "fulfilled") =>
         /\ ret[c1].kind = "diagram"
         /\ ret[c1].db = DbOf(defn[c1])

\* the first call has returned its Diagram although its parse finished after
\* the second call had cleared the shared db and started its own parse: the
\* db still holds the first parse's content while the second parse is active
C16_Witness ==
  \E c1, c2 \in Calls :
    /\ c1 < c2 /\ regAtEntry[c2] /\ type[c1] = type[c2]
    /\ ret[c1].kind = "diagram"
    /\ ParseActive(c2) /\ parsed[c2].status = "pending" /\ HasCalled(c2, "clear")
    /\ ret[c1].db = DbOf(defn[c2])
    /\ dbContent[ret[c1].db] = ret[c1].text

\* where a call can be while other code runs: before it starts, at one of the
\* two awaits, or after it settled
SuspendedAt == { "idle", "awaitLoader", "awaitParse", "done" }

\* a call that is anywhere else holds the thread; a call that found its tag
\* registered never gets to the loader, so it holds the thread from its start
\* until parser.parse has been invoked
C17_SectionInv ==
  \A c \in Calls :
    /\ pc[c] \notin SuspendedAt => cur = c
    /\ cur = c => pc[c] \notin SuspendedAt
    /\ regAtEntry[c] => pc[c] \notin { "getLoader", "callLoader", "awaitLoader", "register" }
    /\ (Started(c) /\ regAtEntry[c] /\ ~HasCalled(c, "parse") /\ pc[c] # "done") => cur = c

\* while a call holds the thread no other call moves, and the thread is
\* given up only at the two awaits or when the call settles
C17_SectionStep ==
  \A c \in Calls :
    cur = c =>
      /\ \A c2 \in Calls \ { c } :
           /\ pc'[c2] = pc[c2] /\ log'[c2] = log[c2] /\ ret'[c2] = ret[c2]
           /\ loaded'[c2] = loaded[c2] /\ parsed'[c2] = parsed[c2]
           /\ defn'[c2] = defn[c2]
      /\ cur' \in { c, 0 }
      /\ cur' = 0 =>
           \/ pc'[c] = "awaitLoader" /\ pc[c] = "callLoader"
           \/ pc'[c] = "awaitParse" /\ pc[c] = "parse"
           \/ pc'[c] = "done"

\* C17: a fromText call is interleaved with other calls only while it awaits
\* loader() or parser.parse: from the definition lookup to the invocation of
\* parse (yy, clear, init, setDiagramTitle, parse) no other call takes a step,
\* and for a tag already registered the same holds from the start of the call.
C17_SuspensionPoints == [](C17_SectionInv) /\ [][C17_SectionStep]_vars

\* a call is between clear and parse while another call's parse is suspended
C17_Witness ==
  \E c1, c2 \in Calls :
    /\ pc[c1] = "awaitParse" /\ parsed[c1].status = "pending"
    /\ cur = c2 /\ pc[c2] = "title" /\ regAtEntry[c2] /\ type[c2] = type[c1]
    /\ HasCalled(c2, "clear")

\* the loader of call c resolved with an id that is not the detected tag
Mismatch(c) == loaded[c].status = "fulfilled" /\ loaded[c].id # type[c]

C18_MismatchInv ==
  \A c \in Calls :
    /\ \A i \in 1..Len(log[c]) :
         log[c][i][1] = "registerDiagram" => log[c][i][2] = << loaded[c].id >>
    /\ (HasCalled(c, "registerDiagram") /\ ret[c].err # "RegistrationConflict")
         => diagrams[loaded[c].id] # NoDef
    /\ (Mismatch(c) /\ pc[c] = "done" /\ ret[c].err = "DiagramNotFoundError") =>
         /\ ret[c].kind = "error"
         /\ Lifecycle(c) = <<>>
         /\ defn[c] = NoDef
    /\ (Started(c) /\ type[c] \in Tags /\ ~regAtEntry[c] /\ getDiagramLoader(type[c])
          /\ pc[c] \notin { "getDiagram", "getLoader", "callLoader" })
         => HasCalled(c, "loader")

C18_MismatchStep ==
  \A c \in Calls :
    (cur = c /\ Mismatch(c)) =>
      /\ diagrams'[type[c]] = diagrams[type[c]]
      /\ (pc[c] = "lookup" /\ diagrams[type[c]] = NoDef) =>
           /\ pc'[c] = "done" /\ ret'[c] = ErrRet("DiagramNotFoundError")
           /\ log'[c] = log[c]
           /\ dbContent' = dbContent /\ dbTitle' = dbTitle /\ yy' = yy

\* C18: the loaded definition is registered under the id the loader returned;
\* when that id is not the detected tag, and the tag is not registered
\* otherwise, getDiagram(type) at line 50 fails: fromText rejects without
\* clear, init or parse, its steps leave the tag's registry entry as it was,
\* and every call for a tag that is unregistered at its line 32 calls the
\* loader.
C18_LoaderIdMismatch == [](C18_MismatchInv) /\ [][C18_MismatchStep]_vars

\* a call was rejected because of the mismatch and a later call for the same,
\* still unregistered tag has called the loader again
C18_Witness ==
  \E c1, c2 \in Calls :
    /\ c1 < c2 /\ type[c1] = type[c2]
    /\ pc[c1] = "done" /\ Mismatch(c1) /\ ret[c1] = ErrRet("DiagramNotFoundError")
    /\ diagrams[loaded[c1].id] = loaded[c1].diagram
    /\ diagrams[type[c1]] = NoDef
    /\ ~regAtEntry[c2] /\ HasCalled(c2, "loader")

\* C19: when no directive returned by detectDirective(code, 'wrap') has type
\* 'wrap' (one non-wrap directive, or a list without a wrap entry),
\* processDirectives returns the init directive as detectInit produced it:
\* an absent wrap stays absent, a true one stays true, none becomes false.
C19_WrapNeverSwitchedOff ==
  DirectivesDone =>
    LET code == pre.frontMatterResult.text
    IN "wrap" \notin WrapTypes(code) =>
         pre.directiveResult.directive = detectInit(code).o

====
